---- MODULE Spec2Model ----
(***************************************************************************)
(* One run of streamlit_app.py: the sidebar inputs, the trend tab (load,   *)
(* plot_water_quality_comparison, plot_characteristic_trend) and the       *)
(* geographic tab (load, get_unique_sites, map rendering).                 *)
(*                                                                         *)
(* Tables are DataFrames as pandas.read_csv returns them: a set of column  *)
(* names and a sequence of rows.  Text is a sequence of one-character      *)
(* strings, so that substring and regex search are computed.  A mean is    *)
(* the exact rational num/den.                                             *)
(***************************************************************************)
EXTENDS Integers, Sequences, FiniteSets, TLC

\* ---------------------------------------------------------------- bounds
MaxRows == 2
MaxStationRows == 2

\* ------------------------------------------------------------------ text
\* A missing cell (NaN) of a string column, and of the CharacteristicName column.
NA == "<NA>"
NAName == <<NA>>

UpperCase == <<"A", "B", "C", "D", "E", "F", "G", "H", "I", "J", "K", "L", "M", "N", "O", "P", "Q", "R", "S", "T", "U", "V", "W", "X", "Y", "Z">>
LowerCase == <<"a", "b", "c", "d", "e", "f", "g", "h", "i", "j", "k", "l", "m", "n", "o", "p", "q", "r", "s", "t", "u", "v", "w", "x", "y", "z">>

Lower(c) ==
    IF \E i \in 1..26 : UpperCase[i] = c
    THEN LowerCase[CHOOSE i \in 1..26 : UpperCase[i] = c]
    ELSE c

LowerStr(s) == [i \in 1..Len(s) |-> Lower(s[i])]

IsSubstring(needle, hay) ==
    \E k \in 0..(Len(hay) - Len(needle)) :
        \A j \in 1..Len(needle) : hay[k + j] = needle[j]

\* The characteristic names the dashboard passes (lines 47 and 79).
Aluminum == <<"A", "l", "u", "m", "i", "n", "u", "m">>
Ammonium == <<"A", "m", "m", "o", "n", "i", "u", "m">>
pH == <<"p", "H">>
DissolvedOxygenDO == <<"D", "i", "s", "s", "o", "l", "v", "e", "d", " ", "o", "x", "y", "g", "e", "n", " ", "(", "D", "O", ")">>
EscherichiaColi == <<"E", "s", "c", "h", "e", "r", "i", "c", "h", "i", "a", " ", "c", "o", "l", "i">>
Nitrate == <<"N", "i", "t", "r", "a", "t", "e">>
Chloride == <<"C", "h", "l", "o", "r", "i", "d", "e">>

SecondCharOptions == {Ammonium, pH, DissolvedOxygenDO, EscherichiaColi, Nitrate, Chloride}

\* Series.str.contains(pat, case=False, na=False) takes pat as a regular
\* expression (regex=True is the default).  In the seven names above the only
\* regex metacharacters are the balanced parentheses of "(DO)": a group, which
\* matches what it encloses and consumes no parenthesis of the text.
regex_literals(pat) == SelectSeq(pat, LAMBDA c : c \notin {"(", ")"})

str_contains(cell, pat) ==
    IF cell = NAName
    THEN FALSE
    ELSE IsSubstring(LowerStr(regex_literals(pat)), LowerStr(cell))

\* ----------------------------------------------------- measurement cells
MeasurementColumns == {"ActivityStartDate", "CharacteristicName", "ResultMeasureValue", "MonitoringLocationIdentifier"}

\* pd.to_datetime of one cell: a missing cell is NaT, a date string is its day
\* (days counted from 2019-12-31), anything else raises.
DateLiterals == ("2020-01-01" :> 1) @@ ("2020-01-02" :> 2) @@ ("2020-01-03" :> 3)
NaT == [nat |-> TRUE, day |-> 0]
DateParses(cell) == cell = NA \/ cell \in DOMAIN DateLiterals
to_datetime(cell) ==
    IF cell = NA THEN NaT ELSE [nat |-> FALSE, day |-> DateLiterals[cell]]

\* pd.to_numeric(errors='coerce') of one cell: a number, or NaN.
NumericLiterals == ("5" :> 5) @@ ("7" :> 7) @@ ("9" :> 9)
NaN == [nan |-> TRUE, num |-> 0, den |-> 1]
Number(n) == [nan |-> FALSE, num |-> n, den |-> 1]
\* Mutant: a value that is not numeric is taken as 0 instead of NaN.
to_numeric_zero(cell) ==
    IF cell \in DOMAIN NumericLiterals THEN Number(NumericLiterals[cell]) ELSE Number(0)

to_numeric(cell) ==
    IF cell \in DOMAIN NumericLiterals THEN Number(NumericLiterals[cell]) ELSE NaN

RECURSIVE SumValues(_)
SumValues(rows) ==
    IF rows = <<>> THEN 0
    ELSE Head(rows).ResultMeasureValue.num + SumValues(Tail(rows))

\* Mutant: aggfunc='sum'.
mean_sum(group) == [nan |-> FALSE, num |-> SumValues(group), den |-> 1]

\* aggfunc='mean' over one (date, site) group of rows with numeric values.
mean(group) == [nan |-> FALSE, num |-> SumValues(group), den |-> Len(group)]

\* Mutant: the index sorted descending.
RECURSIVE SortedDescending(_)
SortedDescending(S) ==
    IF S = {} THEN <<>>
    ELSE LET m == CHOOSE x \in S : \A y \in S : x >= y
         IN <<m>> \o SortedDescending(S \ {m})

RECURSIVE SortedSeq(_)
SortedSeq(S) ==
    IF S = {} THEN <<>>
    ELSE LET m == CHOOSE x \in S : \A y \in S : x <= y
         IN <<m>> \o SortedSeq(S \ {m})

\* The lexicographic order of the site identifiers of the model.
SiteOrder == <<"A", "B">>

\* DataFrame.pivot_table(index=date, columns=site, values=value, aggfunc='mean'):
\* rows with a missing key are left out of the groups; index and columns are sorted.
pivot_table(fdf) ==
    LET keyed == SelectSeq(fdf, LAMBDA r :
                     ~r.ActivityStartDate.nat /\ r.MonitoringLocationIdentifier # NA)
        dates == {keyed[i].ActivityStartDate.day : i \in 1..Len(keyed)}
        sites == {keyed[i].MonitoringLocationIdentifier : i \in 1..Len(keyed)}
        group(d, s) == SelectSeq(keyed, LAMBDA r :
                           r.ActivityStartDate.day = d /\ r.MonitoringLocationIdentifier = s)
    IN  [index   |-> SortedSeq(dates),
         columns |-> SelectSeq(SiteOrder, LAMBDA s : s \in sites),
         cell    |-> [d \in dates, s \in sites |->
                         IF group(d, s) = <<>> THEN NaN ELSE mean(group(d, s))]]

SelectByMask(rows, mask) ==
    LET idx == SelectSeq([i \in 1..Len(rows) |-> i], LAMBDA i : mask[i])
    IN  [k \in 1..Len(idx) |-> rows[idx[k]]]

BlankAxes == [title |-> "", lines |-> <<>>]

\* df['CharacteristicName'].str.contains(...) of line 93: the boolean mask.
filter_mask(df, characteristic_name) ==
    [i \in 1..Len(df.rows) |-> str_contains(df.rows[i].CharacteristicName, characteristic_name)]

\* Lines 94-95: coerce the values, drop the rows whose value is NaN.
coerce_and_dropna(filtered_df) ==
    SelectSeq([i \in 1..Len(filtered_df) |->
                  [filtered_df[i] EXCEPT !.ResultMeasureValue = to_numeric(@)]],
              LAMBDA r : ~r.ResultMeasureValue.nan)

\* Lines 111-115: one line per column of the pivot that has a non-NaN cell.
site_lines(pivot_df) ==
    LET line(s) ==
            LET x == SelectSeq(pivot_df.index, LAMBDA d : ~pivot_df.cell[d, s].nan)
            IN  [label |-> s, x |-> x, y |-> [k \in 1..Len(x) |-> pivot_df.cell[x[k], s]]]
    IN  SelectSeq([k \in 1..Len(pivot_df.columns) |-> line(pivot_df.columns[k])],
                  LAMBDA l : l.x # <<>>)

\* A column read_csv found no text in: with rows and every cell missing it is a
\* float column, and its .str accessor raises AttributeError.
NoTextIn(df, col) ==
    df.rows # <<>> /\ \A i \in 1..Len(df.rows) : df.rows[i][col] = NAName

\* plot_characteristic_trend(df, characteristic_name, ax): what it raises, or
\* the axes it leaves.  A column the frame lacks raises KeyError where it is read.
plot_characteristic_trend(df, characteristic_name) ==
    IF \/ "CharacteristicName" \notin df.cols
       \/ NoTextIn(df, "CharacteristicName")
       \/ "ResultMeasureValue" \notin df.cols
    THEN [raised |-> TRUE, ax |-> BlankAxes]
    ELSE LET filtered_df ==
                 coerce_and_dropna(SelectByMask(df.rows, filter_mask(df, characteristic_name)))
         IN  IF filtered_df = <<>>
             THEN [raised |-> FALSE, ax |-> [title |-> "No data available", lines |-> <<>>]]
             ELSE IF "MonitoringLocationIdentifier" \notin df.cols
             THEN [raised |-> TRUE, ax |-> BlankAxes]
             ELSE [raised |-> FALSE,
                   ax |-> [title |-> "Trend of", lines |-> site_lines(pivot_table(filtered_df))]]

\* Lines 70-88, plot_water_quality_comparison: line 73 converts the date column in
\* place (a missing column or a malformed date raises), then both characteristics
\* are plotted; the except clause of line 87 turns anything raised into st.error.
plot_water_quality_comparison(second_characteristic, d) ==
    IF \/ "ActivityStartDate" \notin d.cols
       \/ \E i \in 1..Len(d.rows) : ~DateParses(d.rows[i].ActivityStartDate)
    THEN [error |-> TRUE, df |-> d, ax1 |-> BlankAxes, ax2 |-> BlankAxes]
    ELSE LET d2 == [d EXCEPT !.rows = [i \in 1..Len(d.rows) |->
                        [d.rows[i] EXCEPT !.ActivityStartDate = to_datetime(@)]]]
             p1 == plot_characteristic_trend(d2, Aluminum)
             p2 == plot_characteristic_trend(d2, second_characteristic)
         IN  IF p1.raised \/ p2.raised
             THEN [error |-> TRUE, df |-> d2, ax1 |-> BlankAxes, ax2 |-> BlankAxes]
             ELSE [error |-> FALSE, df |-> d2, ax1 |-> p1.ax, ax2 |-> p2.ax]

\* --------------------------------------------------------- station cells
required_columns == <<"MonitoringLocationName", "MonitoringLocationTypeName", "LatitudeMeasure", "LongitudeMeasure">>
RequiredSet == {required_columns[i] : i \in 1..Len(required_columns)}
StationColumns == RequiredSet \cup {"OrganizationIdentifier"}

\* A coordinate cell: a number, a missing value, or text in a numeric column.
Coord(n) == [k |-> "num", v |-> n]
CoordNaN == [k |-> "nan", v |-> 0]
CoordText == [k |-> "str", v |-> 0]

\* Mutant: only the first absent column is reported.
missing_columns_first(df) ==
    LET all == SelectSeq(required_columns, LAMBDA col : col \notin df.cols)
    IN  IF all = <<>> THEN <<>> ELSE <<Head(all)>>

\* Line 150.
missing_columns(df) == SelectSeq(required_columns, LAMBDA col : col \notin df.cols)

\* Mutant: the frame is not cut down to the required columns.
project_all(rows) == rows

\* df[required_columns] of line 155.
project(rows) == [i \in 1..Len(rows) |-> [c \in RequiredSet |-> rows[i][c]]]

\* DataFrame.drop_duplicates(): the first of each group of equal rows is kept (NaN
\* cells count as equal), in the order of the frame.
drop_duplicates(rows) ==
    SelectByMask(rows, [i \in 1..Len(rows) |-> \A j \in 1..(i - 1) : rows[j] # rows[i]])

\* dropna(subset=['LatitudeMeasure', 'LongitudeMeasure']) of line 156.
dropna_coordinates(rows) ==
    SelectSeq(rows, LAMBDA r : r.LatitudeMeasure.k # "nan" /\ r.LongitudeMeasure.k # "nan")

\* Lines 146-157.
get_unique_sites(df) ==
    IF missing_columns(df) # <<>>
    THEN [none |-> TRUE, rows |-> <<>>]
    ELSE [none |-> FALSE, rows |-> dropna_coordinates(drop_duplicates(project(df.rows)))]

RECURSIVE SumColumn(_, _)
SumColumn(rows, col) ==
    IF rows = <<>> THEN 0 ELSE Head(rows)[col].v + SumColumn(Tail(rows), col)

\* Series.mean() of lines 172-173: NaN for an empty column, TypeError for text.
ColumnHasText(rows, col) == \E i \in 1..Len(rows) : rows[i][col].k = "str"
column_mean(rows, col) ==
    IF rows = <<>> THEN NaN
    ELSE [nan |-> FALSE, num |-> SumColumn(rows, col), den |-> Len(rows)]

\* Lines 179-185: one marker per row.
markers(rows) ==
    [i \in 1..Len(rows) |->
        [location |-> <<rows[i].LatitudeMeasure.v, rows[i].LongitudeMeasure.v>>,
         tooltip  |-> rows[i].MonitoringLocationName,
         popup    |-> <<rows[i].MonitoringLocationName, rows[i].MonitoringLocationTypeName>>]]

\* ----------------------------------------------------------------- files
NoTable == [cols |-> {}, rows |-> <<>>]
NoFile == [kind |-> "none", table |-> NoTable]
Unparseable == [kind |-> "unparseable", table |-> NoTable]
Csv(t) == [kind |-> "csv", table |-> t]

\* Lines 41-42.
default_results == "narrowresult.csv"
default_stations == "station.csv"

\* ----------------------------------------------------------------- state
VARIABLES
    results_file,     \* st.file_uploader(key='results'): NoFile when nothing is uploaded
    stations_file,    \* st.file_uploader(key='stations')
    disk,             \* what each default path holds
    second_char,      \* the selectbox of lines 45-49
    pc,               \* where the script run is
    df,               \* the measurement frame of tab 1
    stations_df,      \* the station frame of tab 2
    tab1,             \* the elements drawn in the trend tab, in order
    fig,              \* the figure of st.pyplot: its two axes
    masks,            \* the boolean masks line 93 computed, for ax1 and ax2
    tab2,             \* the elements drawn in the geographic tab, in order
    unique_sites,     \* what get_unique_sites returned
    schema_msg,       \* the columns listed by the st.error of line 152
    site_map,         \* the folium.Map call and what came of it
    exc               \* the exception that ended the run unhandled, "" if none

vars == <<results_file, stations_file, disk, second_char, pc, df, stations_df, tab1,
          fig, masks, tab2, unique_sites, schema_msg, site_map, exc>>

inputs == <<results_file, stations_file, disk, second_char>>

Tables(rows, n) == UNION {[1..k -> rows] : k \in 0..n}

\* ---------------------------------------------------------------- inputs
TotalAluminum == <<"T", "o", "t", "a", "l", " ", "a", "l", "u", "m", "i", "n", "u", "m">>
AluminumDissolved == <<"A", "L", "U", "M", "I", "N", "U", "M", ",", " ", "D", "I", "S", "S", "O", "L", "V", "E", "D">>
DissolvedOxygenPlain == <<"D", "i", "s", "s", "o", "l", "v", "e", "d", " ", "o", "x", "y", "g", "e", "n", " ", "D", "O">>
Phosphorus == <<"P", "h", "o", "s", "p", "h", "o", "r", "u", "s">>
Alum == <<"A", "l", "u", "m">>

MeasurementRow(date, name, value, site) ==
    [ActivityStartDate |-> date, CharacteristicName |-> name,
     ResultMeasureValue |-> value, MonitoringLocationIdentifier |-> site]

Measurements(rows) == [cols |-> MeasurementColumns, rows |-> rows]

TrendRows ==
    [ActivityStartDate : {"2020-01-01", "2020-01-02", NA},
     CharacteristicName : {TotalAluminum, pH},
     ResultMeasureValue : {"5", "7", "bad"},
     MonitoringLocationIdentifier : {"A", "B"}]

NameRows ==
    {MeasurementRow("2020-01-01", name, "5", "A") :
        name \in {Aluminum, TotalAluminum, AluminumDissolved, Alum, pH, Phosphorus,
                  DissolvedOxygenDO, DissolvedOxygenPlain, Nitrate, NAName}}

GoodMeasurements == Measurements(<<MeasurementRow("2020-01-01", Aluminum, "5", "A")>>)

SampleMeasurements ==
    {Measurements(<<MeasurementRow("01/13/2020x", Aluminum, "5", "A")>>),
     Measurements(<<MeasurementRow("2020-01-02", Aluminum, "5", NA),
                    MeasurementRow("2020-01-01", pH, NA, "B")>>),
     Measurements(<<MeasurementRow("2020-01-03", Aluminum, "9", "B"),
                    MeasurementRow("2020-01-01", Aluminum, "5", "B"),
                    MeasurementRow("2020-01-02", Aluminum, "7", "B")>>),
     Measurements(<<MeasurementRow("2020-01-01", Aluminum, "5", "A"),
                    MeasurementRow("2020-01-01", Aluminum, "bad", "A"),
                    MeasurementRow("2020-01-02", Aluminum, "n/a", "A")>>)}
    \cup {[cols |-> MeasurementColumns \ {c},
           rows |-> <<MeasurementRow("2020-01-01", Aluminum, "5", "A")>>] :
             c \in MeasurementColumns}

StationRow(name, type, lat, lon, org) ==
    [MonitoringLocationName |-> name, MonitoringLocationTypeName |-> type,
     LatitudeMeasure |-> lat, LongitudeMeasure |-> lon, OrganizationIdentifier |-> org]

Stations(rows) == [cols |-> StationColumns, rows |-> rows]

StationRows ==
    [MonitoringLocationName : {"S1", "S2"},
     MonitoringLocationTypeName : {"River"},
     LatitudeMeasure : {Coord(37), Coord(39), CoordNaN},
     LongitudeMeasure : {Coord(84), CoordNaN},
     OrganizationIdentifier : {"o1", "o2"}]

GoodStations == Stations(<<StationRow("S1", "River", Coord(37), Coord(84), "o1")>>)

\* A station frame with only the columns cols: each row keeps those cells.
WithColumns(t, cols) ==
    [cols |-> cols, rows |-> [i \in 1..Len(t.rows) |-> [c \in cols |-> t.rows[i][c]]]]

SchemaStations ==
    {WithColumns(Stations(<<StationRow("S1", "River", Coord(37), Coord(84), "o1"),
                            StationRow("S2", "Lake", Coord(39), CoordNaN, "o1")>>), cols) :
        cols \in SUBSET StationColumns}

SampleStations ==
    {Stations(<<>>),
     Stations(<<StationRow("S1", "River", Coord(37), Coord(84), "o1"),
                StationRow("S1", "Lake", Coord(37), Coord(84), "o1"),
                StationRow("S1", "River", Coord(37), Coord(84), "o2")>>),
     Stations(<<StationRow("S1", "River", CoordText, Coord(84), "o1")>>),
     Stations(<<StationRow("S1", "River", Coord(37), CoordText, "o1"),
                StationRow(NA, NA, Coord(39), Coord(84), "o2")>>)}

LoadedDisk == (default_results :> Csv(GoodMeasurements)) @@ (default_stations :> Csv(GoodStations))

\* Which sources exist and parse, with frames that do or do not transform.
InitSources ==
    /\ results_file \in {NoFile, Unparseable, Csv(GoodMeasurements)}
                        \cup {Csv(t) : t \in SampleMeasurements}
    /\ stations_file \in {NoFile, Unparseable, Csv(GoodStations)}
                         \cup {Csv(t) : t \in SampleStations}
    /\ disk \in [{default_results, default_stations} -> {NoFile, Unparseable}]
                \cup {LoadedDisk}
    /\ second_char \in {Ammonium}

\* Uploaded measurement frames of up to MaxRows rows.
InitTrend ==
    /\ results_file \in {Csv(Measurements(rows)) : rows \in Tables(TrendRows, MaxRows)}
    /\ stations_file = Csv(GoodStations)
    /\ disk = LoadedDisk
    /\ second_char \in {pH}

\* Uploaded measurement frames of up to MaxRows rows that differ in the
\* characteristic name only, with every option of the selectbox.
InitNames ==
    /\ results_file \in {Csv(Measurements(rows)) : rows \in Tables(NameRows, MaxRows)}
    /\ stations_file = Csv(GoodStations)
    /\ disk = LoadedDisk
    /\ second_char \in SecondCharOptions

\* Uploaded station frames: of up to MaxStationRows rows, or lacking columns.
InitStations ==
    /\ results_file = Csv(GoodMeasurements)
    /\ stations_file \in {Csv(Stations(rows)) : rows \in Tables(StationRows, MaxStationRows)}
                         \cup {Csv(t) : t \in SchemaStations}
    /\ disk = LoadedDisk
    /\ second_char \in {Ammonium}

NoFigure == [shown |-> FALSE, ax1 |-> BlankAxes, ax2 |-> BlankAxes]
NoMap == [called |-> FALSE, location |-> <<NaN, NaN>>, markers |-> <<>>]

Init ==
    /\ InitSources \/ InitTrend \/ InitNames \/ InitStations
    /\ pc = "tab1_load"
    /\ df = NoTable
    /\ stations_df = NoTable
    /\ tab1 = <<>>
    /\ fig = NoFigure
    /\ masks = <<>>
    /\ tab2 = <<>>
    /\ unique_sites = [none |-> TRUE, rows |-> <<>>]
    /\ schema_msg = <<>>
    /\ site_map = NoMap
    /\ exc = ""

\* --------------------------------------------------------------- actions
\* pd.read_csv of an upload or of a default path.
Reads(file) == file.kind = "csv"

\* Lines 55-67.  read_csv of the upload is outside any try: what it raises ends the
\* run.  A default file that cannot be read ends the run through st.stop().
Tab1Load ==
    /\ pc = "tab1_load"
    /\ IF results_file # NoFile
       THEN IF Reads(results_file)
            THEN /\ df' = results_file.table
                 /\ tab1' = <<"header", "success: loaded">>
                 /\ pc' = "tab1_plot"
                 /\ exc' = exc
            ELSE /\ tab1' = <<"header">>
                 /\ pc' = "exception"
                 /\ exc' = "read_csv(results_file)"
                 /\ df' = df
       ELSE IF Reads(disk[default_results])
            THEN /\ df' = disk[default_results].table
                 /\ tab1' = <<"header", "info: default data">>
                 /\ pc' = "tab1_plot"
                 /\ exc' = exc
            ELSE /\ tab1' = <<"header", "error: upload or default">>
                 /\ pc' = "stopped"
                 /\ UNCHANGED <<df, exc>>
    /\ UNCHANGED <<inputs, stations_df, fig, masks, tab2, unique_sites, schema_msg, site_map>>

\* Lines 126-128: plot_water_quality_comparison(second_characteristic=second_char).
Tab1Plot ==
    /\ pc = "tab1_plot"
    /\ LET r == plot_water_quality_comparison(second_char, df)
       IN  /\ df' = r.df
           /\ IF r.error
              THEN /\ tab1' = Append(tab1, "error: An error occurred")
                   /\ UNCHANGED <<fig, masks>>
              ELSE /\ tab1' = Append(tab1, "pyplot")
                   /\ fig' = [shown |-> TRUE, ax1 |-> r.ax1, ax2 |-> r.ax2]
                   /\ masks' = <<filter_mask(r.df, Aluminum), filter_mask(r.df, second_char)>>
    /\ pc' = "tab2_load"
    /\ UNCHANGED <<inputs, stations_df, tab2, unique_sites, schema_msg, site_map, exc>>

\* Lines 131-143.
Tab2Load ==
    /\ pc = "tab2_load"
    /\ IF stations_file # NoFile
       THEN IF Reads(stations_file)
            THEN /\ stations_df' = stations_file.table
                 /\ tab2' = <<"header", "success: loaded">>
                 /\ pc' = "tab2_sites"
                 /\ exc' = exc
            ELSE /\ tab2' = <<"header">>
                 /\ pc' = "exception"
                 /\ exc' = "read_csv(stations_file)"
                 /\ stations_df' = stations_df
       ELSE IF Reads(disk[default_stations])
            THEN /\ stations_df' = disk[default_stations].table
                 /\ tab2' = <<"header", "info: default data">>
                 /\ pc' = "tab2_sites"
                 /\ exc' = exc
            ELSE /\ tab2' = <<"header", "error: upload or default">>
                 /\ pc' = "stopped"
                 /\ UNCHANGED <<stations_df, exc>>
    /\ UNCHANGED <<inputs, df, tab1, fig, masks, unique_sites, schema_msg, site_map>>

\* Line 159: unique_sites = get_unique_sites(stations_df), with the st.error of line 152.
Tab2Sites ==
    /\ pc = "tab2_sites"
    /\ unique_sites' = get_unique_sites(stations_df)
    /\ schema_msg' = missing_columns(stations_df)
    /\ tab2' = IF missing_columns(stations_df) # <<>>
               THEN Append(tab2, "error: Missing required columns")
               ELSE tab2
    /\ pc' = "tab2_render"
    /\ UNCHANGED <<inputs, df, stations_df, tab1, fig, masks, site_map, exc>>

\* Lines 162-169, drawn before the map is made.
BeforeMap == <<"success: Found", "dataframe", "subheader">>

\* Line 161 with unique_sites None: nothing more is drawn.
Tab2RenderNone ==
    /\ pc = "tab2_render"
    /\ unique_sites.none
    /\ pc' = "done"
    /\ UNCHANGED <<inputs, df, stations_df, tab1, fig, masks, tab2, unique_sites,
                   schema_msg, site_map, exc>>

\* Lines 172-173 on a coordinate column that holds text: Series.mean raises
\* TypeError, which nothing catches.
Tab2RenderMeanRaises ==
    /\ pc = "tab2_render"
    /\ ~unique_sites.none
    /\ \/ ColumnHasText(unique_sites.rows, "LatitudeMeasure")
       \/ ColumnHasText(unique_sites.rows, "LongitudeMeasure")
    /\ tab2' = tab2 \o BeforeMap
    /\ pc' = "exception"
    /\ exc' = "TypeError: Series.mean"
    /\ UNCHANGED <<inputs, df, stations_df, tab1, fig, masks, unique_sites, schema_msg, site_map>>

MapCall ==
    [called   |-> TRUE,
     location |-> <<column_mean(unique_sites.rows, "LatitudeMeasure"),
                    column_mean(unique_sites.rows, "LongitudeMeasure")>>,
     markers  |-> markers(unique_sites.rows)]

\* Lines 172-188 with numeric coordinates.
Tab2RenderMap ==
    /\ pc = "tab2_render"
    /\ ~unique_sites.none
    /\ ~ColumnHasText(unique_sites.rows, "LatitudeMeasure")
    /\ ~ColumnHasText(unique_sites.rows, "LongitudeMeasure")
    /\ unique_sites.rows # <<>>
    /\ site_map' = MapCall
    /\ tab2' = tab2 \o BeforeMap \o <<"map">>
    /\ pc' = "done"
    /\ UNCHANGED <<inputs, df, stations_df, tab1, fig, masks, unique_sites, schema_msg, exc>>

\* Lines 172-188 with no station left: both means are NaN and folium.Map is called
\* with location=[nan, nan].  What folium does with it depends on its version: it
\* raises ValueError (nothing catches it), or it builds the map and it is drawn.
Tab2RenderNaNCenter ==
    /\ pc = "tab2_render"
    /\ ~unique_sites.none
    /\ unique_sites.rows = <<>>
    /\ site_map' = MapCall
    /\ \/ /\ tab2' = tab2 \o BeforeMap
          /\ pc' = "exception"
          /\ exc' = "ValueError: folium.Map"
       \/ /\ tab2' = tab2 \o BeforeMap \o <<"map">>
          /\ pc' = "done"
          /\ exc' = exc
    /\ UNCHANGED <<inputs, df, stations_df, tab1, fig, masks, unique_sites, schema_msg>>

Next ==
    \/ Tab1Load
    \/ Tab1Plot
    \/ Tab2Load
    \/ Tab2Sites
    \/ Tab2RenderNone
    \/ Tab2RenderMeanRaises
    \/ Tab2RenderMap
    \/ Tab2RenderNaNCenter

Spec == Init /\ [][Next]_vars

\* ---------------------------------------------------------------- claims
Elements(seq) == {seq[i] : i \in 1..Len(seq)}
RunEnded == pc \in {"done", "stopped", "exception"}
LoadErrors == {"read_csv(results_file)", "read_csv(stations_file)"}

\* The trend pipeline failed: its source did not load, or the plot raised.
TrendFailed ==
    \/ exc = "read_csv(results_file)"
    \/ "error: upload or default" \in Elements(tab1)
    \/ "error: An error occurred" \in Elements(tab1)

\* get_unique_sites has returned.
SitesComputed == pc \in {"tab2_render", "done"} \/ (pc = "exception" /\ exc \notin LoadErrors)

\* C1: when a run has ended with the trend pipeline failed, the geographic tab was
\* still reached: it drew its header and went on to load its station data.
C1_TrendFailureLeavesGeoTab == (RunEnded /\ TrendFailed) => tab2 # <<>>

\* C1, second half: no step of the geographic tab changes what the trend tab shows.
GeoStepLeavesTrendTab ==
    pc \in {"tab2_load", "tab2_sites", "tab2_render"} => (tab1' = tab1 /\ fig' = fig)
C1_GeoLeavesTrendTab == [][GeoStepLeavesTrendTab]_vars

\* C2: no run ends with an unhandled exception other than a failed load: every
\* fault of a transformation is caught and shown as a message.
C2_TransformFaultsCaught == pc = "exception" => exc \in LoadErrors

\* C3: when get_unique_sites returned an empty station set, folium.Map is not called
\* (its center would be NaN) and no map is drawn.
C3_NoMapForEmptyStationSet ==
    (~unique_sites.none /\ unique_sites.rows = <<>> /\ RunEnded)
        => (~site_map.called /\ "map" \notin Elements(tab2))

\* C4: with a required column absent, the schema error lists exactly the absent
\* required columns, no station set is returned and neither the table nor the map is
\* drawn; with the four present there is no schema error and a set is returned.
C4_SchemaLaw ==
    SitesComputed =>
        LET absent == RequiredSet \ stations_df.cols
        IN  /\ absent # {} =>
                /\ Elements(schema_msg) = absent
                /\ Len(schema_msg) = Cardinality(absent)
                /\ "error: Missing required columns" \in Elements(tab2)
                /\ unique_sites.none
                /\ ~site_map.called
                /\ Elements(tab2) \cap {"dataframe", "map", "success: Found"} = {}
            /\ absent = {} =>
                /\ schema_msg = <<>>
                /\ "error: Missing required columns" \notin Elements(tab2)
                /\ ~unique_sites.none

C4_Witness ==
    /\ pc = "done"
    /\ Len(schema_msg) = 2
    /\ "LongitudeMeasure" \in Elements(schema_msg)
    /\ stations_df.rows # <<>>

BothCoordinates(row) == row.LatitudeMeasure.k # "nan" /\ row.LongitudeMeasure.k # "nan"
SameStation(a, b) == \A c \in RequiredSet : a[c] = b[c]

\* C5: with the four required columns present, no two returned entries agree on all
\* four required fields, every entry has both coordinates, and every input row
\* with both coordinates agrees with exactly one entry.
C5_StationDedupLaw ==
    (SitesComputed /\ RequiredSet \subseteq stations_df.cols) =>
        LET out == unique_sites.rows
            src == stations_df.rows
        IN  /\ \A i, j \in 1..Len(out) : i # j => ~SameStation(out[i], out[j])
            /\ \A i \in 1..Len(out) : BothCoordinates(out[i])
            /\ \A r \in 1..Len(src) : BothCoordinates(src[r]) =>
                   Cardinality({j \in 1..Len(out) : SameStation(out[j], src[r])}) = 1

C5_Witness ==
    /\ pc = "done"
    /\ RequiredSet \subseteq stations_df.cols
    /\ Len(stations_df.rows) = 2
    /\ stations_df.rows[1] # stations_df.rows[2]
    /\ BothCoordinates(stations_df.rows[1])
    /\ SameStation(stations_df.rows[1], stations_df.rows[2])
    /\ Len(unique_sites.rows) = 1

\* The axes of a characteristic (1: Aluminum, 2: the second characteristic) and the
\* rows of df that survived its filter and the numeric coercion.
AxesOf(a) == IF a = 1 THEN fig.ax1 ELSE fig.ax2
Surviving(a) ==
    {i \in 1..Len(df.rows) :
        masks[a][i] /\ df.rows[i].ResultMeasureValue \in DOMAIN NumericLiterals}
Dated(a) ==
    {i \in Surviving(a) :
        ~df.rows[i].ActivityStartDate.nat /\ df.rows[i].MonitoringLocationIdentifier # NA}
GroupOf(a, d, s) ==
    {i \in Dated(a) :
        df.rows[i].ActivityStartDate.day = d /\ df.rows[i].MonitoringLocationIdentifier = s}
Days == {DateLiterals[c] : c \in DOMAIN DateLiterals}
Sites == Elements(SiteOrder)
PointsAt(a, s, d) ==
    LET lines == AxesOf(a).lines
    IN  {<<l, k>> \in (1..Len(lines)) \X (1..Cardinality(Days)) :
            /\ lines[l].label = s
            /\ k <= Len(lines[l].x)
            /\ lines[l].x[k] = d}
ValueAt(a, p) == AxesOf(a).lines[p[1]].y[p[2]]

RECURSIVE SumOver(_)
SumOver(I) ==
    IF I = {} THEN 0
    ELSE LET i == CHOOSE x \in I : TRUE
         IN  NumericLiterals[df.rows[i].ResultMeasureValue] + SumOver(I \ {i})

\* C6: a characteristic with no row left after filtering and coercion gets the
\* placeholder title and no series, and the placeholder is what every chart without a
\* series carries; the figure is drawn with both charts either way.
C6_PlaceholderIffNoSeries ==
    fig.shown => \A a \in {1, 2} :
        /\ Surviving(a) = {} => (AxesOf(a).title = "No data available" /\ AxesOf(a).lines = <<>>)
        /\ AxesOf(a).lines = <<>> => AxesOf(a).title = "No data available"

\* C7: a row is selected for a characteristic exactly when its CharacteristicName is
\* present and contains the name, taken literally, ignoring case.
LiteralContains(cell, name) ==
    cell # NAName /\ IsSubstring(LowerStr(name), LowerStr(cell))
C7_LiteralSubstringFilter ==
    fig.shown => \A i \in 1..Len(df.rows) :
        /\ masks[1][i] <=> LiteralContains(df.rows[i].CharacteristicName, Aluminum)
        /\ masks[2][i] <=> LiteralContains(df.rows[i].CharacteristicName, second_char)

\* C8: every (date, site) pair with a surviving row has exactly one plotted point,
\* and its value is the arithmetic mean of the surviving rows of the pair:
\* value * count = sum.
C8_MeanAggregation ==
    fig.shown => \A a \in {1, 2}, d \in Days, s \in Sites :
        GroupOf(a, d, s) # {} =>
            /\ Cardinality(PointsAt(a, s, d)) = 1
            /\ \A p \in PointsAt(a, s, d) :
                   /\ ~ValueAt(a, p).nan
                   /\ ValueAt(a, p).num * Cardinality(GroupOf(a, d, s))
                          = SumOver(GroupOf(a, d, s)) * ValueAt(a, p).den

C8_Witness ==
    /\ fig.shown
    /\ \E d \in Days, s \in Sites : \E i, j \in GroupOf(1, d, s) :
           /\ df.rows[i].ResultMeasureValue = "5"
           /\ df.rows[j].ResultMeasureValue = "7"
           /\ \E p \in PointsAt(1, s, d) : ValueAt(1, p).num = 6 * ValueAt(1, p).den

\* The rows the filter selected at a date and site, numeric or not.
SelectedAt(a, d, s) ==
    {i \in 1..Len(df.rows) :
        /\ masks[a][i]
        /\ ~df.rows[i].ActivityStartDate.nat
        /\ df.rows[i].ActivityStartDate.day = d
        /\ df.rows[i].MonitoringLocationIdentifier = s}

\* C9: a row whose value is not numeric adds nothing to a mean, neither to its sum
\* nor to its count: a point is the sum over the numeric rows of its date and site
\* divided by their number; a date and site with no numeric row has no point.
C9_MissingDataLaw ==
    fig.shown => \A a \in {1, 2}, d \in Days, s \in Sites :
        /\ \A p \in PointsAt(a, s, d) :
               /\ ValueAt(a, p).den = Cardinality(GroupOf(a, d, s))
               /\ ValueAt(a, p).num = SumOver(GroupOf(a, d, s))
               /\ ValueAt(a, p).den > 0
        /\ GroupOf(a, d, s) = {} => PointsAt(a, s, d) = {}

C9_Witness ==
    /\ fig.shown
    /\ \E d \in Days, s \in Sites :
           /\ GroupOf(1, d, s) # {}
           /\ SelectedAt(1, d, s) \ GroupOf(1, d, s) # {}
           /\ PointsAt(1, s, d) # {}
    /\ \E d \in Days, s \in Sites :
           /\ SelectedAt(1, d, s) # {}
           /\ GroupOf(1, d, s) = {}
           /\ s \in {fig.ax1.lines[l].label : l \in 1..Len(fig.ax1.lines)}

Labels(a) == {AxesOf(a).lines[l].label : l \in 1..Len(AxesOf(a).lines)}
StrictlyAscending(x) == \A k \in 1..(Len(x) - 1) : x[k] < x[k + 1]
SeriesWellFormed(a) ==
    LET lines == AxesOf(a).lines
    IN  /\ \A l, m \in 1..Len(lines) : lines[l].label = lines[m].label => l = m
        /\ \A l \in 1..Len(lines) :
               /\ lines[l].x # <<>>
               /\ Len(lines[l].y) = Len(lines[l].x)
               /\ StrictlyAscending(lines[l].x)

\* C10 as stated: the plotted sites are exactly the sites with a row whose value is
\* numeric after coercion, and every series is strictly ascending in date.
C10_SitesWithNumericValue ==
    fig.shown => \A a \in {1, 2} :
        /\ Labels(a) = {df.rows[i].MonitoringLocationIdentifier : i \in Surviving(a)} \ {NA}
        /\ SeriesWellFormed(a)

\* C10 amended: the plotted sites are exactly the sites with a row whose value is
\* numeric and whose date is not missing; each has one series, which is not empty
\* and strictly ascending in date.
C10_SitesWithDatedNumericValue ==
    fig.shown => \A a \in {1, 2} :
        /\ Labels(a) = {df.rows[i].MonitoringLocationIdentifier : i \in Dated(a)}
        /\ SeriesWellFormed(a)

C10_Witness ==
    /\ fig.shown
    /\ \E i, j \in Dated(1) :
           /\ i < j
           /\ df.rows[i].MonitoringLocationIdentifier = df.rows[j].MonitoringLocationIdentifier
           /\ df.rows[i].ActivityStartDate.day > df.rows[j].ActivityStartDate.day
    /\ \E l \in 1..Len(fig.ax1.lines) : Len(fig.ax1.lines[l].x) >= 2

\* A site whose only numeric rows have no date has no series.
C10_UndatedWitness ==
    /\ fig.shown
    /\ fig.ax1.lines # <<>>
    /\ \E i \in Surviving(1) :
           df.rows[i].MonitoringLocationIdentifier \notin Labels(1) \cup {NA}

====
